---------------------------- MODULE Spec2Model ----------------------------
(***************************************************************************)
(* Leader-follower formation control with a CBF safety filter.             *)
(*                                                                         *)
(* The model covers the control-law stack of the repository: the Topology  *)
(* object (adjacency, Laplacian, augmented Laplacian, neighbour queries),  *)
(* the centralized and the distributed nominal controllers, the shared     *)
(* consensus-error helper, the CBF safety filter (its QP core and its      *)
(* wrapping of a nominal controller), the Agent's Euler integration and    *)
(* the ErrorTracker metric.                                                *)
(*                                                                         *)
(* Conventions.                                                            *)
(*  - A numpy array is a record [shape, data]; data is indexed from 0 as   *)
(*    in the source, so every "agent_id - 1" of the code is written out.   *)
(*  - A (k,1) column vector (agent state, offset, command) is a function   *)
(*    on 0..k-1.                                                           *)
(*  - Python's None is the record None; a raised exception is recorded in  *)
(*    the field exc of the call's outcome ("none" when the call returned). *)
(*  - Reals are modelled by integers: the control laws are polynomial in   *)
(*    their inputs, so no rounding is involved.  Where a time step dt is   *)
(*    involved, dt is a fraction [num, den], the simulated quantities are  *)
(*    counted in 1/Unit, and a step is taken only when its result is exact.*)
(***************************************************************************)
EXTENDS Integers, Sequences, FiniteSets, TLC

VARIABLES
    topo_args,     \* the arguments the caller passed to Topology(...)
    topology,      \* outcome of Topology.__init__: [exc, self]
    all_agents,    \* the caller's list of Agent objects (index 0..n-1)
    leader_state,  \* the caller's leader state (None or a 4-vector)
    ctrl_args,     \* the arguments the caller passed to the controllers
    cbf_args,      \* the nominal command and the constraints of the CBF filter
    cen,           \* outcome of CentralizedFormationControl.__init__
    dis,           \* outcome of DistributedFormationControl.__init__
    ret,           \* outcome of the last call made on the objects
    stdout,        \* lines printed so far
    tracker,       \* the ErrorTracker of the simulation
    sim_args       \* the initial states and the time step of the simulation

vars == <<topo_args, topology, all_agents, leader_state, ctrl_args, cbf_args, cen,
          dis, ret, stdout, tracker, sim_args>>

(***************************************************************************)
(* Bounds of the model.                                                    *)
(***************************************************************************)
MaxN == 2                    \* followers: 1..MaxN
MaxRows == 2                 \* rows of a constraint set (G, h)
MaxLog == 2                  \* lines kept on stdout
MaxSteps == 3                \* update_physics calls in a run
URange == 2                  \* commands range over the lattice (-URange..URange)^2

AdjWeights == {0, 1}         \* entries of the adjacency matrices tried
LeaderWeights == {0, 1}      \* entries of the leader-access vectors tried
ArgIds == -1 .. MaxN + 1     \* agent_id arguments tried, in and out of 1..N

(***************************************************************************)
(* Python / numpy primitives used by the source.                           *)
(***************************************************************************)
None == [none |-> TRUE]

IsNone(x) == "none" \in DOMAIN x

NoRet == [op |-> "none"]

\* Python / numpy index k into an axis of length len: negative indices count
\* from the end, anything outside -len..len-1 raises IndexError.
IndexOk(k, len) == k >= -len /\ k < len

PyIndex(k, len) == IF k < 0 THEN k + len ELSE k

RECURSIVE SumTo(_, _)
\* f[0] + ... + f[k-1]
SumTo(f, k) == IF k = 0 THEN 0 ELSE SumTo(f, k - 1) + f[k - 1]

Rows(M) == M.shape[1]

Cols(M) == M.shape[2]

\* np.zeros((r, c))
NpZeros2(r, c) ==
    [shape |-> <<r, c>>, data |-> [i \in 0 .. r - 1 |-> [j \in 0 .. c - 1 |-> 0]]]

\* np.diag(v) for a 1-D v
NpDiag(v) ==
    LET n == v.shape[1]
    IN  [shape |-> <<n, n>>,
         data |-> [i \in 0 .. n - 1 |->
                     [j \in 0 .. n - 1 |-> IF i = j THEN v.data[i] ELSE 0]]]

\* np.sum(M, axis=1): the row sums, a 1-D array
NpSumAxis1(M) ==
    [shape |-> <<Rows(M)>>,
     data |-> [i \in 0 .. Rows(M) - 1 |-> SumTo(M.data[i], Cols(M))]]

\* numpy broadcasting of two 2-D shapes
Broadcastable(s, t) ==
    /\ (s[1] = t[1] \/ s[1] = 1 \/ t[1] = 1)
    /\ (s[2] = t[2] \/ s[2] = 1 \/ t[2] = 1)

BroadcastShape(s, t) ==
    <<IF s[1] = 1 THEN t[1] ELSE s[1], IF s[2] = 1 THEN t[2] ELSE s[2]>>

BAt(M, i, j) ==
    M.data[IF Rows(M) = 1 THEN 0 ELSE i][IF Cols(M) = 1 THEN 0 ELSE j]

\* X - Y and X + Y on broadcastable 2-D arrays
NpSub(X, Y) ==
    LET s == BroadcastShape(X.shape, Y.shape)
    IN  [shape |-> s,
         data |-> [i \in 0 .. s[1] - 1 |->
                     [j \in 0 .. s[2] - 1 |-> BAt(X, i, j) - BAt(Y, i, j)]]]

NpAdd(X, Y) ==
    LET s == BroadcastShape(X.shape, Y.shape)
    IN  [shape |-> s,
         data |-> [i \in 0 .. s[1] - 1 |->
                     [j \in 0 .. s[2] - 1 |-> BAt(X, i, j) + BAt(Y, i, j)]]]

\* np.where(row > 0)[0]: the indices of the positive entries, ascending
NpWhereGt0(row, len) ==
    LET W[k \in 0 .. len] ==
            IF k = 0 THEN <<>>
            ELSE IF row[k - 1] > 0 THEN Append(W[k - 1], k - 1) ELSE W[k - 1]
    IN  W[len]

SeqPlus1(s) == [k \in 1 .. Len(s) |-> s[k] + 1]

Range(s) == {s[k] : k \in DOMAIN s}

(***************************************************************************)
(* Topology (formation/topology.py).                                       *)
(***************************************************************************)
\* Mutant: column sums (axis=0) instead of row sums.
NpSumAxis0(M) ==
    [shape |-> <<Cols(M)>>,
     data |-> [j \in 0 .. Cols(M) - 1 |->
                 SumTo([i \in 0 .. Rows(M) - 1 |-> M.data[i][j]], Rows(M))]]

DegreeMatrixColumnSums(adj) == NpDiag(NpSumAxis0(adj))

\* degree_matrix = np.diag(np.sum(self.adj_matrix, axis=1))
DegreeMatrix(adj) == NpDiag(NpSumAxis1(adj))

\* Topology.__init__: the attributes are assigned in the order of the source;
\* a broadcasting failure inside _compute_laplacian or
\* _compute_augmented_laplacian raises ValueError and leaves the attributes
\* assigned so far.
TopologyInit(num_agents, adjacency_matrix, leader_access) ==
    LET adj == IF IsNone(adjacency_matrix)
               THEN NpZeros2(num_agents, num_agents)
               ELSE adjacency_matrix
        D_lead == IF IsNone(leader_access)
                  THEN NpZeros2(num_agents, num_agents)
                  ELSE NpDiag(leader_access)
        deg == DegreeMatrix(adj)
        base == [n |-> num_agents, adj_matrix |-> adj, D_lead |-> D_lead]
    IN  IF ~Broadcastable(deg.shape, adj.shape)
        THEN [exc |-> "ValueError", self |-> base]
        ELSE LET L == NpSub(deg, adj)
                 withL == [n |-> num_agents, adj_matrix |-> adj,
                           D_lead |-> D_lead, laplacian_matrix |-> L]
             IN  IF ~Broadcastable(L.shape, D_lead.shape)
                 THEN [exc |-> "ValueError", self |-> withL]
                 ELSE [exc |-> "none",
                       self |-> [n |-> num_agents, adj_matrix |-> adj,
                                 D_lead |-> D_lead, laplacian_matrix |-> L,
                                 augmented_laplacian |-> NpAdd(L, D_lead)]]

\* Mutant: the neighbour indices are returned 0-based (the "+ 1" dropped).
GetNeighborsZeroBased(self, agent_id) ==
    IF ~IndexOk(agent_id - 1, Rows(self.adj_matrix))
    THEN [exc |-> "IndexError", value |-> <<>>]
    ELSE [exc |-> "none",
          value |-> NpWhereGt0(
                        self.adj_matrix.data[PyIndex(agent_id - 1, Rows(self.adj_matrix))],
                        Cols(self.adj_matrix))]

\* Topology.get_neighbors: np.where(self.adj_matrix[agent_id - 1] > 0)[0] + 1
GetNeighbors(self, agent_id) ==
    IF ~IndexOk(agent_id - 1, Rows(self.adj_matrix))
    THEN [exc |-> "IndexError", value |-> <<>>]
    ELSE [exc |-> "none",
          value |-> SeqPlus1(NpWhereGt0(
                        self.adj_matrix.data[PyIndex(agent_id - 1, Rows(self.adj_matrix))],
                        Cols(self.adj_matrix)))]

\* Topology.sees_leader: self.D_lead[agent_id - 1, agent_id - 1] > 0
SeesLeader(self, agent_id) ==
    IF ~(IndexOk(agent_id - 1, Rows(self.D_lead)) /\ IndexOk(agent_id - 1, Cols(self.D_lead)))
    THEN [exc |-> "IndexError", value |-> FALSE]
    ELSE [exc |-> "none",
          value |-> self.D_lead.data[PyIndex(agent_id - 1, Rows(self.D_lead))]
                                    [PyIndex(agent_id - 1, Cols(self.D_lead))] > 0]

\* Topology.get_augmented_laplacian
GetAugmentedLaplacian(self) == self.augmented_laplacian

(***************************************************************************)
(* Inputs tried for Topology(...).                                         *)
(***************************************************************************)
Matrices(r, c, vals) ==
    {[shape |-> <<r, c>>, data |-> d] : d \in [0 .. r - 1 -> [0 .. c - 1 -> vals]]}

Vectors(n, vals) == {[shape |-> <<n>>, data |-> d] : d \in [0 .. n - 1 -> vals]}

AdjacencyInputs ==
    {None} \cup UNION {Matrices(r, c, AdjWeights) : r \in 1 .. MaxN, c \in 1 .. MaxN}

LeaderAccessInputs ==
    {None} \cup UNION {Vectors(m, LeaderWeights) : m \in 1 .. MaxN}

\* The arguments are consistent with num_agents (None stands for the default).
WellShaped(args) ==
    /\ IsNone(args.adjacency_matrix)
         \/ args.adjacency_matrix.shape = <<args.num_agents, args.num_agents>>
    /\ IsNone(args.leader_access)
         \/ args.leader_access.shape = <<args.num_agents>>

(***************************************************************************)
(* The topology session: a Topology is constructed, then queried.          *)
(***************************************************************************)
InitTopology ==
    /\ topo_args \in [num_agents : 1 .. MaxN,
                      adjacency_matrix : AdjacencyInputs,
                      leader_access : LeaderAccessInputs]
    /\ topology = TopologyInit(topo_args.num_agents, topo_args.adjacency_matrix,
                               topo_args.leader_access)
    /\ all_agents = <<>>
    /\ leader_state = None
    /\ ctrl_args = None
    /\ cbf_args = None
    /\ cen = None
    /\ dis = None
    /\ ret = NoRet
    /\ stdout = <<>>
    /\ tracker = None
    /\ sim_args = None

CallGetNeighbors ==
    /\ topology.exc = "none"
    /\ \E agent_id \in ArgIds :
          LET r == GetNeighbors(topology.self, agent_id)
          IN  ret' = [op |-> "get_neighbors", agent_id |-> agent_id,
                      exc |-> r.exc, value |-> r.value]
    /\ UNCHANGED <<topo_args, topology, all_agents, leader_state, ctrl_args, cbf_args,
                 cen, dis, stdout, tracker, sim_args>>

CallSeesLeader ==
    /\ topology.exc = "none"
    /\ \E agent_id \in ArgIds :
          LET r == SeesLeader(topology.self, agent_id)
          IN  ret' = [op |-> "sees_leader", agent_id |-> agent_id,
                      exc |-> r.exc, value |-> r.value]
    /\ UNCHANGED <<topo_args, topology, all_agents, leader_state, ctrl_args, cbf_args,
                 cen, dis, stdout, tracker, sim_args>>

CallGetAugmentedLaplacian ==
    /\ topology.exc = "none"
    /\ ret' = [op |-> "get_augmented_laplacian", exc |-> "none",
               value |-> GetAugmentedLaplacian(topology.self)]
    /\ UNCHANGED <<topo_args, topology, all_agents, leader_state, ctrl_args, cbf_args,
                 cen, dis, stdout, tracker, sim_args>>

NextTopology ==
    \/ CallGetNeighbors
    \/ CallSeesLeader
    \/ CallGetAugmentedLaplacian

SpecTopology == InitTopology /\ [][NextTopology]_vars


(***************************************************************************)
(* Agents (formation/agent.py) as the controllers read them.               *)
(***************************************************************************)
dim_x == 4    \* state dimension per agent: [x, y, vx, vy]

dim_u == 2    \* input dimension per agent: [ax, ay]

Vec4(a, b, c, d) == (0 :> a) @@ (1 :> b) @@ (2 :> c) @@ (3 :> d)

Zeros4 == Vec4(0, 0, 0, 0)

\* Agent.__init__: id, state and f as (4,1) columns, an empty history
AgentInit(agent_id, x0, f_target) ==
    [id |-> agent_id, state |-> x0, f |-> f_target, history |-> <<>>]

\* len(all_agents), the list being indexed 0..n-1
PyLen(list) == Cardinality(DOMAIN list)

\* M @ v for a rows x cols matrix (data) and a vector of length cols
MatVec(M, v, rows, cols) ==
    [p \in 0 .. rows - 1 |-> SumTo([q \in 0 .. cols - 1 |-> M[p][q] * v[q]], cols)]

\* The class attributes A (4 x 4) and B (4 x 2) of the double integrator
AgentA ==
    (0 :> Vec4(0, 0, 1, 0)) @@ (1 :> Vec4(0, 0, 0, 1))
    @@ (2 :> Vec4(0, 0, 0, 0)) @@ (3 :> Vec4(0, 0, 0, 0))

AgentB ==
    (0 :> ((0 :> 0) @@ (1 :> 0))) @@ (1 :> ((0 :> 0) @@ (1 :> 0)))
    @@ (2 :> ((0 :> 1) @@ (1 :> 0))) @@ (3 :> ((0 :> 0) @@ (1 :> 1)))

\* x_dot = self.A @ self.state + self.B @ u_input
XDot(self, u) ==
    LET Ax == MatVec(AgentA, self.state, dim_x, dim_x)
        Bu == MatVec(AgentB, u, dim_x, dim_u)
    IN  [c \in 0 .. dim_x - 1 |-> Ax[c] + Bu[c]]

\* x_dot * dt is representable: every component is a whole number of 1/Unit
ExactStep(self, u, dt) ==
    \A c \in 0 .. dim_x - 1 : (XDot(self, u)[c] * dt.num) % dt.den = 0

\* Mutant: the state is updated in place and the history keeps references
\* to it, so every entry shows the latest state.
UpdatePhysicsInPlace(self, u, dt) ==
    LET x_dot == XDot(self, u)
        state == [c \in 0 .. dim_x - 1 |->
                     self.state[c] + (x_dot[c] * dt.num) \div dt.den]
    IN  [id |-> self.id, state |-> state, f |-> self.f,
         history |-> [m \in 1 .. Len(self.history) + 1 |-> state]]

\* Agent.update_physics followed by its save_history: the Euler step
\* self.state = self.state + x_dot * dt, then a flattened copy of the new
\* state is appended to the history.
UpdatePhysics(self, u, dt) ==
    LET x_dot == XDot(self, u)
        state == [c \in 0 .. dim_x - 1 |->
                     self.state[c] + (x_dot[c] * dt.num) \div dt.den]
    IN  [id |-> self.id, state |-> state, f |-> self.f,
         history |-> Append(self.history, state)]

\* The properties pos and vel: self.state[0:2] and self.state[2:4]
AgentPos(self) ==
    [shape |-> <<2, 1>>, data |-> [k \in 0 .. 1 |-> self.state[k]]]

AgentVel(self) ==
    [shape |-> <<2, 1>>, data |-> [k \in 0 .. 1 |-> self.state[2 + k]]]

(***************************************************************************)
(* CentralizedFormationControl (control_law/nominal/centralized_formation) *)
(***************************************************************************)
\* np.array(0): the default K_prime_matrix, a 0-dimensional array (its one
\* element kept at flat index 0)
NpScalar0 == [shape |-> <<>>, data |-> (0 :> 0)]

\* CentralizedFormationControl.__init__
CentralizedInit(K_matrix, K_prime_matrix) ==
    LET self == [name |-> "CentralizedFormation", K |-> K_matrix,
                 K_prime |-> K_prime_matrix]
    IN  IF self.K.shape # <<2, 4>>
        THEN [exc |-> "ValueError", self |-> self]
        ELSE IF self.K_prime.shape # <<2, 4>>
             THEN [exc |-> "ValueError", self |-> self]
             ELSE [exc |-> "none", self |-> self]

\* Mutant: the Kronecker factors swapped, np.kron(K, H).
NpKronSwapped(A, rA, cA, B, rB, cB) ==
    [p \in 0 .. rA * rB - 1 |->
        [q \in 0 .. cA * cB - 1 |-> B[p \div rA][q \div cA] * A[p % rA][q % cA]]]

\* np.kron(A, B) for an rA x cA matrix A and an rB x cB matrix B (data)
NpKron(A, rA, cA, B, rB, cB) ==
    [p \in 0 .. rA * rB - 1 |->
        [q \in 0 .. cA * cB - 1 |-> A[p \div rB][q \div cB] * B[p % rB][q % cB]]]

\* np.eye(n)
NpEye(n) == [i \in 0 .. n - 1 |-> [j \in 0 .. n - 1 |-> IF i = j THEN 1 ELSE 0]]

\* The leader_state argument as a (4,1) column: np.zeros((4, 1)) when None,
\* np.array(leader_state).reshape(4, 1) otherwise.
LeaderColumn(ls) == IF IsNone(ls) THEN Zeros4 ELSE ls.data

\* CentralizedFormationControl.compute_nominal
CentralizedComputeNominal(self, agents, topo, ls) ==
    LET n == PyLen(agents)
        H == GetAugmentedLaplacian(topo)
    IN  IF H.shape # <<n, n>>
        THEN [exc |-> "ValueError", value |-> <<>>]
        ELSE LET X_all == [k \in 0 .. dim_x * n - 1 |->
                              agents[k \div dim_x].state[k % dim_x]]
                 F_all == [k \in 0 .. dim_x * n - 1 |->
                              agents[k \div dim_x].f[k % dim_x]]
                 leader == LeaderColumn(ls)
                 X_L_all == [k \in 0 .. dim_x * n - 1 |-> leader[k % dim_x]]
                 error_all == [k \in 0 .. dim_x * n - 1 |->
                                  X_all[k] - F_all[k] - X_L_all[k]]
                 H_kron_K == NpKron(H.data, n, n, self.K.data, dim_u, dim_x)
                 I_kron_K_prime ==
                     NpKron(NpEye(n), n, n, self.K_prime.data, dim_u, dim_x)
                 fb == MatVec(H_kron_K, error_all, dim_u * n, dim_x * n)
                 ff == MatVec(I_kron_K_prime, F_all, dim_u * n, dim_x * n)
                 U_all == [p \in 0 .. dim_u * n - 1 |-> (0 - fb[p]) + ff[p]]
             IN  [exc |-> "none",
                  value |-> [i \in 0 .. n - 1 |->
                               [r \in 0 .. dim_u - 1 |-> U_all[dim_u * i + r]]]]

(***************************************************************************)
(* DistributedFormationControl (control_law/nominal/distributed_formation) *)
(***************************************************************************)
\* DistributedFormationControl.__init__: K is stored, not validated
DistributedInit(K_matrix) ==
    [exc |-> "none",
     self |-> [name |-> "DistributedFormationControl", K |-> K_matrix]]

\* DistributedFormationControl.compute_nominal, statement by statement.  The
\* list all_agents and the arrays are indexed with agent_id and with the
\* neighbour IDs themselves; the leader weight is read from the attribute
\* b_diag of the topology.
DistributedComputeNominal(self, agent_id, agents, topo, ls) ==
    LET n == PyLen(agents)
        leader == LeaderColumn(ls)
        adj == topo.adj_matrix
    IN  IF ~IndexOk(agent_id, n)
        THEN [exc |-> "IndexError", value |-> <<>>]
        ELSE
        LET current_agent == agents[PyIndex(agent_id, n)]
            error_i == [c \in 0 .. dim_x - 1 |->
                           current_agent.state[c] - current_agent.f[c] - leader[c]]
            nb == GetNeighbors(topo, agent_id)
        IN  IF nb.exc # "none"
            THEN [exc |-> nb.exc, value |-> <<>>]
            ELSE IF \E k \in DOMAIN nb.value :
                        \/ ~IndexOk(nb.value[k], n)
                        \/ ~IndexOk(agent_id, Rows(adj))
                        \/ ~IndexOk(nb.value[k], Cols(adj))
            THEN [exc |-> "IndexError", value |-> <<>>]
            ELSE
            LET term(k, c) ==
                    LET j == nb.value[k]
                        neighbor_agent == agents[PyIndex(j, n)]
                        a_ij == adj.data[PyIndex(agent_id, Rows(adj))]
                                        [PyIndex(j, Cols(adj))]
                    IN  a_ij * ((current_agent.state[c] - current_agent.f[c])
                                - (neighbor_agent.state[c] - neighbor_agent.f[c]))
                neighbor_sum == [c \in 0 .. dim_x - 1 |->
                    SumTo([k \in 0 .. Len(nb.value) - 1 |-> term(k + 1, c)],
                          Len(nb.value))]
            IN  IF "b_diag" \notin DOMAIN topo
                THEN [exc |-> "AttributeError", value |-> <<>>]
                ELSE IF ~(IndexOk(agent_id, Rows(topo.b_diag))
                          /\ IndexOk(agent_id, Cols(topo.b_diag)))
                THEN [exc |-> "IndexError", value |-> <<>>]
                ELSE
                LET b_i == topo.b_diag.data[PyIndex(agent_id, Rows(topo.b_diag))]
                                           [PyIndex(agent_id, Cols(topo.b_diag))]
                    total == [c \in 0 .. dim_x - 1 |->
                                 neighbor_sum[c] + b_i * error_i[c]]
                IN  IF Cols(self.K) # dim_x        \* -self.K @ (4,1) column
                    THEN [exc |-> "ValueError", value |-> <<>>]
                    ELSE IF Rows(self.K) # dim_u   \* u_nominal.reshape(2, 1)
                    THEN [exc |-> "ValueError", value |-> <<>>]
                    ELSE LET Ku == MatVec(self.K.data, total, dim_u, dim_x)
                         IN  [exc |-> "none",
                              value |-> [r \in 0 .. dim_u - 1 |-> 0 - Ku[r]]]

(***************************************************************************)
(* BaseController.get_neighbor_errors (control_law/base_controller.py),    *)
(* inherited by both controllers.                                          *)
(***************************************************************************)
\* The helper's value: sum over the neighbours of a_ij * (error_j - error_i),
\* with i = agent_id - 1 and j = nid - 1.
NeighborErrorSum(agent_id, agents, topo, nb) ==
    LET n == PyLen(agents)
        adj == topo.adj_matrix
        i == agent_id - 1
        current_agent == agents[PyIndex(i, n)]
        term(k, c) ==
            LET j == nb[k] - 1
                a_ij == adj.data[PyIndex(i, Rows(adj))][PyIndex(j, Cols(adj))]
            IN  a_ij * ((agents[PyIndex(j, n)].state[c] - agents[PyIndex(j, n)].f[c])
                        - (current_agent.state[c] - current_agent.f[c]))
    IN  [c \in 0 .. dim_x - 1 |->
            SumTo([k \in 0 .. Len(nb) - 1 |-> term(k + 1, c)], Len(nb))]

\* Which index the helper fails on, if any
NeighborErrorsFails(agent_id, agents, topo) ==
    LET n == PyLen(agents)
        adj == topo.adj_matrix
        nb == GetNeighbors(topo, agent_id)
    IN  \/ ~IndexOk(agent_id - 1, n)
        \/ nb.exc # "none"
        \/ \E k \in DOMAIN nb.value :
              \/ ~IndexOk(nb.value[k] - 1, n)
              \/ ~IndexOk(agent_id - 1, Rows(adj))
              \/ ~IndexOk(nb.value[k] - 1, Cols(adj))

\* Mutant: error_sum aliases the agent's state (no np.zeros_like copy), so
\* the in-place "+=" writes the sum into the agent.
GetNeighborErrorsAliased(self, agent_id, agents, topo) ==
    IF NeighborErrorsFails(agent_id, agents, topo)
    THEN [exc |-> "IndexError", value |-> <<>>, all_agents |-> agents]
    ELSE LET sum == NeighborErrorSum(agent_id, agents, topo,
                                     GetNeighbors(topo, agent_id).value)
             i == PyIndex(agent_id - 1, PyLen(agents))
         IN  [exc |-> "none", value |-> sum,
              all_agents |-> [agents EXCEPT ![i].state =
                                 [c \in 0 .. dim_x - 1 |-> agents[i].state[c] + sum[c]]]]

\* BaseController.get_neighbor_errors.  error_sum is a fresh array
\* (np.zeros_like), so its in-place "+=" leaves the agents as they were; the
\* outcome carries the agent list after the call.
GetNeighborErrors(self, agent_id, agents, topo) ==
    IF NeighborErrorsFails(agent_id, agents, topo)
    THEN [exc |-> "IndexError", value |-> <<>>, all_agents |-> agents]
    ELSE [exc |-> "none",
          value |-> NeighborErrorSum(agent_id, agents, topo,
                                     GetNeighbors(topo, agent_id).value),
          all_agents |-> agents]

(***************************************************************************)
(* Inputs tried for the nominal controllers.                               *)
(***************************************************************************)
NominalAdjWeights == {0, 1, 2}

StateVals == {Vec4(1, 2, 3, 5), Vec4(2, -1, 0, 1), Vec4(0, 0, 0, 0)}

OffsetVals == {Vec4(3, 1, 0, 0), Vec4(0, 0, 0, 0)}

LeaderVal == [shape |-> <<4>>, data |-> Vec4(1, 1, 2, -1)]

LeaderStateVals == {None, LeaderVal}

Gain(a, b) == [shape |-> <<2, 4>>, data |-> (0 :> a) @@ (1 :> b)]

GainVals == {Gain(Vec4(1, 2, 3, 4), Vec4(5, 6, 7, 8))}

ZeroGain == Gain(Zeros4, Zeros4)

\* A gain of the wrong shape: a 4 x 2 matrix (K transposed).
MisshapedGainVals ==
    {[shape |-> <<4, 2>>,
      data |-> [p \in 0 .. 3 |-> [q \in 0 .. 1 |-> 4 * q + p + 1]]]}

KPrimeVals == {NpScalar0, ZeroGain, Gain(Vec4(1, 0, 0, 2), Vec4(0, 3, 1, 0))}

\* Every list of m agents with states and offsets from the sets above.
AgentLists(m) ==
    {[i \in 0 .. m - 1 |-> AgentInit(i + 1, x[i], f[i])] :
        x \in [0 .. m - 1 -> StateVals], f \in [0 .. m - 1 -> OffsetVals]}

\* One list of n agents whose states and offsets all differ.
DistinctAgents(n) ==
    [i \in 0 .. n - 1 |->
        AgentInit(i + 1, Vec4(i + 1, 2 - i, 3 * i, 1 - i), Vec4(2 * i + 1, i + 1, 0, 0))]

\* Every weighted directed graph on n followers without self-loops.
Digraphs(n) ==
    {[shape |-> <<n, n>>,
      data |-> [i \in 0 .. n - 1 |->
                  [j \in 0 .. n - 1 |-> IF i = j THEN 0 ELSE w[<<i, j>>]]]] :
        w \in [{<<i, j>> \in (0 .. n - 1) \X (0 .. n - 1) : i # j}
                 -> NominalAdjWeights]}

\* The cycle graph of the tests on n followers, follower i's links weighted
\* 1 or 2, with leader access [1, 0, 1, 0, ...].
CycleAdjacency(n) ==
    [shape |-> <<n, n>>,
     data |-> [i \in 0 .. n - 1 |->
                 [j \in 0 .. n - 1 |->
                    IF i # j /\ (j = (i + 1) % n \/ i = (j + 1) % n)
                    THEN 1 + (i % 2) ELSE 0]]]

CycleLeaderAccess(n) ==
    [shape |-> <<n>>, data |-> [i \in 0 .. n - 1 |-> IF i % 2 = 0 THEN 1 ELSE 0]]

(***************************************************************************)
(* The control session: topology, agents and controllers are constructed,  *)
(* then the nominal laws are evaluated on them.  The inputs are swept in   *)
(* two families: every graph with one list of distinct agents and a given  *)
(* leader state, and every agent list (of any length) on the cycle graph   *)
(* with and without a leader state, the latter also with a gain of the     *)
(* wrong shape.                                                            *)
(***************************************************************************)
GraphSweep ==
    /\ \E n \in 1 .. MaxN :
          /\ topo_args \in [num_agents : {n},
                            adjacency_matrix : Digraphs(n),
                            leader_access : Vectors(n, LeaderWeights)]
          /\ all_agents = DistinctAgents(n)
    /\ leader_state = LeaderVal
    /\ ctrl_args \in [K_matrix : GainVals, K_prime_matrix : KPrimeVals]

StateSweep ==
    /\ \E n \in 1 .. MaxN :
          topo_args = [num_agents |-> n,
                       adjacency_matrix |-> CycleAdjacency(n),
                       leader_access |-> CycleLeaderAccess(n)]
    /\ \E m \in 1 .. MaxN : all_agents \in AgentLists(m)
    /\ leader_state \in LeaderStateVals
    /\ ctrl_args \in [K_matrix : GainVals \cup MisshapedGainVals,
                      K_prime_matrix : KPrimeVals]

InitNominal ==
    /\ GraphSweep \/ StateSweep
    /\ topology = TopologyInit(topo_args.num_agents, topo_args.adjacency_matrix,
                               topo_args.leader_access)
    /\ cen = CentralizedInit(ctrl_args.K_matrix, ctrl_args.K_prime_matrix)
    /\ dis = DistributedInit(ctrl_args.K_matrix)
    /\ cbf_args = None
    /\ ret = NoRet
    /\ stdout = <<>>
    /\ tracker = None
    /\ sim_args = None

CallCentralizedComputeNominal ==
    /\ topology.exc = "none"
    /\ cen.exc = "none"
    /\ LET r == CentralizedComputeNominal(cen.self, all_agents, topology.self,
                                          leader_state)
       IN  ret' = [op |-> "Centralized.compute_nominal",
                   exc |-> r.exc, value |-> r.value]
    /\ UNCHANGED <<topo_args, topology, all_agents, leader_state, ctrl_args, cbf_args,
                 cen, dis, stdout, tracker, sim_args>>

CallDistributedComputeNominal ==
    /\ topology.exc = "none"
    /\ dis.exc = "none"
    /\ \E agent_id \in ArgIds :
          LET r == DistributedComputeNominal(dis.self, agent_id, all_agents,
                                             topology.self, leader_state)
          IN  ret' = [op |-> "Distributed.compute_nominal", agent_id |-> agent_id,
                      exc |-> r.exc, value |-> r.value]
    /\ UNCHANGED <<topo_args, topology, all_agents, leader_state, ctrl_args, cbf_args,
                 cen, dis, stdout, tracker, sim_args>>

NextNominal ==
    \/ CallCentralizedComputeNominal
    \/ CallDistributedComputeNominal

SpecNominal == InitNominal /\ [][NextNominal]_vars

(***************************************************************************)
(* BaseCBF.solve_cbf_qp (control_law/cbf/base_cbf.py).                     *)
(***************************************************************************)
\* The commands the QP ranges over: a bounded integer lattice in place of R^2.
ULattice == [0 .. dim_u - 1 -> -URange .. URange]

\* Row k of G u <= h
RowHolds(G, h, k, u) == G.data[k][0] * u[0] + G.data[k][1] * u[1] <= h.data[k]

FeasibleSet(G, h) ==
    {u \in ULattice : \A k \in 0 .. Rows(G) - 1 : RowHolds(G, h, k, u)}

\* Twice the QP cost 0.5 u^T P u + q^T u (doubled to stay in the integers)
QpCost2(P, q, u) ==
    SumTo([i \in 0 .. dim_u - 1 |->
              u[i] * SumTo([j \in 0 .. dim_u - 1 |-> P[i][j] * u[j]], dim_u)], dim_u)
    + 2 * SumTo([i \in 0 .. dim_u - 1 |-> q[i] * u[i]], dim_u)

\* qpsolvers.solve_qp(P, q, G, h): the answers its contract allows, a
\* minimiser of the cost over the feasible set as a 1-D array, or None when
\* the constraints are infeasible.
SolveQp(P, q, G, h) ==
    LET F == FeasibleSet(G, h)
    IN  IF F = {}
        THEN {None}
        ELSE {[shape |-> <<dim_u>>, data |-> u] :
                 u \in {v \in F : \A w \in F : QpCost2(P, q, v) <= QpCost2(P, q, w)}}

\* P = np.eye(2)
QpP == NpEye(dim_u)

\* Mutant: the linear term with the wrong sign, q = +u_nom.
QpQPlus(u_nom) == [k \in 0 .. dim_u - 1 |-> u_nom[k]]

\* q = -u_nom.flatten()
QpQ(u_nom) == [k \in 0 .. dim_u - 1 |-> 0 - u_nom[k]]

\* print(f"Warning: QP Infeasible for agent {agent_id}, using u_nom")
WarningLine(agent_id) == [text |-> "Warning: QP Infeasible, using u_nom",
                          agent |-> agent_id]

\* Mutant: the solver is called before G is tested for None.
SolveCbfQpNoShortcut(u_nom, agent_id, gc, u_opt) ==
    IF gc.exc # "none"
    THEN [exc |-> gc.exc, value |-> <<>>, solver_calls |-> <<>>, printed |-> <<>>]
    ELSE LET call == [P |-> QpP, q |-> QpQ(u_nom), G |-> gc.G, h |-> gc.h]
         IN  IF IsNone(gc.G) \/ IsNone(u_opt)
             THEN [exc |-> "none", value |-> u_nom, solver_calls |-> <<call>>,
                   printed |-> IF IsNone(gc.G) THEN <<>>
                               ELSE <<WarningLine(agent_id)>>]
             ELSE [exc |-> "none", value |-> u_opt.data, solver_calls |-> <<call>>,
                   printed |-> <<>>]

\* Mutant: the infeasible fallback returns u_nom without printing.
SolveCbfQpSilent(u_nom, agent_id, gc, u_opt) ==
    IF gc.exc # "none"
    THEN [exc |-> gc.exc, value |-> <<>>, solver_calls |-> <<>>, printed |-> <<>>]
    ELSE IF IsNone(gc.G)
    THEN [exc |-> "none", value |-> u_nom, solver_calls |-> <<>>, printed |-> <<>>]
    ELSE LET call == [P |-> QpP, q |-> QpQ(u_nom), G |-> gc.G, h |-> gc.h]
         IN  IF IsNone(u_opt)
             THEN [exc |-> "none", value |-> u_nom, solver_calls |-> <<call>>,
                   printed |-> <<>>]
             ELSE [exc |-> "none", value |-> u_opt.data, solver_calls |-> <<call>>,
                   printed |-> <<>>]

\* BaseCBF.solve_cbf_qp.  gc is the outcome of self.generate_constraints
\* (the subclass hook; the base class raises NotImplementedError) and u_opt
\* the answer of the solver when it is called.  The outcome lists the solver
\* calls made and the lines printed.
SolveCbfQp(u_nom, agent_id, gc, u_opt) ==
    IF gc.exc # "none"
    THEN [exc |-> gc.exc, value |-> <<>>, solver_calls |-> <<>>, printed |-> <<>>]
    ELSE IF IsNone(gc.G)
    THEN [exc |-> "none", value |-> u_nom, solver_calls |-> <<>>, printed |-> <<>>]
    ELSE LET call == [P |-> QpP, q |-> QpQ(u_nom), G |-> gc.G, h |-> gc.h]
         IN  IF IsNone(u_opt)
             THEN [exc |-> "none", value |-> u_nom, solver_calls |-> <<call>>,
                   printed |-> <<WarningLine(agent_id)>>]
             ELSE [exc |-> "none", value |-> u_opt.data, solver_calls |-> <<call>>,
                   printed |-> <<>>]

\* What the solver may answer for this call (None when it is not called).
SolverAnswers(u_nom, gc) ==
    IF gc.exc # "none" \/ IsNone(gc.G)
    THEN {None}
    ELSE SolveQp(QpP, QpQ(u_nom), gc.G, gc.h)

\* BaseCBF.__init__ (safety_dist = 0.5)
BaseCBFInit(nominal_controller) ==
    [nominal |-> nominal_controller, d_min |-> [num |-> 1, den |-> 2]]

\* Python values by type, for a call whose arguments are bound by position
PyInt(k) == [type |-> "int", value |-> k]

PyList(l) == [type |-> "list", value |-> l]

PyTopology(t) == [type |-> "Topology", value |-> t]

\* CentralizedFormationControl.compute_nominal(all_agents, topology,
\* leader_state) on arguments of any type: len(all_agents) raises TypeError
\* on an int, topology.get_augmented_laplacian() AttributeError on a list.
CentralizedComputeNominalOn(self, p_all_agents, p_topology, p_leader_state) ==
    IF p_all_agents.type # "list"
    THEN [exc |-> "TypeError", value |-> <<>>]
    ELSE IF p_topology.type # "Topology"
    THEN [exc |-> "AttributeError", value |-> <<>>]
    ELSE CentralizedComputeNominal(self, p_all_agents.value, p_topology.value,
                                   p_leader_state)

\* self.nominal.compute_nominal(agent_id, all_agents, topology): the three
\* arguments are bound by position to the wrapped controller's parameters,
\* (agent_id, all_agents, topology) for the distributed controller and
\* (all_agents, topology, leader_state) for the centralized one; no leader
\* state is passed.
FilterNominal(nominal, agent_id, agents, topo) ==
    IF nominal.kind = "Centralized"
    THEN CentralizedComputeNominalOn(nominal.self, PyInt(agent_id), PyList(agents),
                                     PyTopology(topo))
    ELSE DistributedComputeNominal(nominal.self, agent_id, agents, topo, None)

\* BaseCBF.compute_safe_control
ComputeSafeControl(self, agent_id, agents, topo, gc, u_opt) ==
    LET nom == FilterNominal(self.nominal, agent_id, agents, topo)
    IN  IF nom.exc # "none"
        THEN [exc |-> nom.exc, value |-> <<>>, nominal |-> nom,
              solver_calls |-> <<>>, printed |-> <<>>]
        ELSE LET q == SolveCbfQp(nom.value, agent_id, gc, u_opt)
             IN  [exc |-> q.exc, value |-> q.value, nominal |-> nom,
                  solver_calls |-> q.solver_calls, printed |-> q.printed]

(***************************************************************************)
(* Inputs tried for the safety filter.                                     *)
(***************************************************************************)
UNomVals == [0 .. dim_u - 1 -> -1 .. 1]

FilterAgentIds == {1, 2}

ConstraintCoeffs == {-1, 0, 1}

ConstraintBounds == {-1, 1}

\* Outcomes of generate_constraints: the base class raising, (None, None),
\* or (G, h) with 1..MaxRows rows.
ConstraintResults ==
    {[exc |-> "NotImplementedError"]}
    \cup {[exc |-> "none", G |-> None, h |-> None]}
    \cup UNION {{[exc |-> "none", G |-> G, h |-> h] :
                    G \in Matrices(m, dim_u, ConstraintCoeffs),
                    h \in Vectors(m, ConstraintBounds)} : m \in 1 .. MaxRows}

(***************************************************************************)
(* The filter session: one agent's nominal command is filtered, possibly   *)
(* several times, against one constraint set.                              *)
(***************************************************************************)
InitCBF ==
    /\ topo_args = None
    /\ topology = None
    /\ all_agents = <<>>
    /\ leader_state = None
    /\ ctrl_args = None
    /\ cen = None
    /\ dis = None
    /\ cbf_args \in [u_nom : UNomVals, agent_id : FilterAgentIds,
                    gc : ConstraintResults]
    /\ ret = NoRet
    /\ stdout = <<>>
    /\ tracker = None
    /\ sim_args = None

CallSolveCbfQp ==
    /\ Len(stdout) < MaxLog
    /\ \E u_opt \in SolverAnswers(cbf_args.u_nom, cbf_args.gc) :
          LET r == SolveCbfQp(cbf_args.u_nom, cbf_args.agent_id, cbf_args.gc, u_opt)
          IN  /\ ret' = [op |-> "solve_cbf_qp", u_opt |-> u_opt, exc |-> r.exc,
                         value |-> r.value, solver_calls |-> r.solver_calls,
                         printed |-> r.printed]
              /\ stdout' = stdout \o r.printed
    /\ UNCHANGED <<topo_args, topology, all_agents, leader_state, ctrl_args, cbf_args,
                 cen, dis, tracker, sim_args>>

NextCBF == CallSolveCbfQp

SpecCBF == InitCBF /\ [][NextCBF]_vars

(***************************************************************************)
(* The agent session: one Agent is constructed, then stepped with          *)
(* update_physics and read through pos and vel.                            *)
(***************************************************************************)
\* dt = 0.1 of the tests, and two coarser steps
TestDt == [num |-> 1, den |-> 10]

DtVals == {TestDt, [num |-> 1, den |-> 2], [num |-> 1, den |-> 1]}

\* One simulated unit, fine enough for MaxSteps steps of TestDt
Unit == TestDt.den ^ MaxSteps

Scaled(v) == [c \in DOMAIN v |-> Unit * v[c]]

\* x0 and f_target of the tests ([0,0,0,0] and [1, 0.5, 0, 0]) and a moving
\* start; u = [1, -0.5] of the tests, no input, and a braking input
AgentX0Vals == {Zeros4, Scaled(Vec4(1, 2, 1, -1))}

AgentOffsetVals == {Vec4(Unit, Unit \div 2, 0, 0)}

AgentInputVals ==
    {(0 :> Unit) @@ (1 :> 0 - Unit \div 2), (0 :> 0) @@ (1 :> 0),
     (0 :> 0 - 2 * Unit) @@ (1 :> Unit)}

InitAgent ==
    /\ sim_args \in [agent_id : {1, 2}, x0 : AgentX0Vals, f_target : AgentOffsetVals]
    /\ all_agents = (0 :> AgentInit(sim_args.agent_id, sim_args.x0, sim_args.f_target))
    /\ topo_args = None
    /\ topology = None
    /\ leader_state = None
    /\ ctrl_args = None
    /\ cbf_args = None
    /\ cen = None
    /\ dis = None
    /\ ret = NoRet
    /\ stdout = <<>>
    /\ tracker = None

CallUpdatePhysics ==
    /\ Len(all_agents[0].history) < MaxSteps
    /\ \E u \in AgentInputVals, dt \in DtVals :
          /\ ExactStep(all_agents[0], u, dt)
          /\ all_agents' = (0 :> UpdatePhysics(all_agents[0], u, dt))
          /\ ret' = [op |-> "update_physics", u |-> u, dt |-> dt, exc |-> "none"]
    /\ UNCHANGED <<topo_args, topology, leader_state, ctrl_args, cbf_args, cen, dis,
                   stdout, tracker, sim_args>>

ReadPos ==
    /\ ret' = [op |-> "pos", exc |-> "none", value |-> AgentPos(all_agents[0])]
    /\ UNCHANGED <<topo_args, topology, all_agents, leader_state, ctrl_args, cbf_args,
                   cen, dis, stdout, tracker, sim_args>>

ReadVel ==
    /\ ret' = [op |-> "vel", exc |-> "none", value |-> AgentVel(all_agents[0])]
    /\ UNCHANGED <<topo_args, topology, all_agents, leader_state, ctrl_args, cbf_args,
                   cen, dis, stdout, tracker, sim_args>>

NextAgent ==
    \/ CallUpdatePhysics
    \/ ReadPos
    \/ ReadVel

SpecAgent == InitAgent /\ [][NextAgent]_vars

(***************************************************************************)
(* The control loop: topology, agents, both controllers and a safety       *)
(* filter wrapping one of them are constructed; then control laws are      *)
(* evaluated and agents are stepped, in any order.                         *)
(***************************************************************************)
LoopAgents(n) ==
    [i \in 0 .. n - 1 |->
        AgentInit(i + 1, Scaled(DistinctAgents(n)[i].state),
                  Scaled(DistinctAgents(n)[i].f))]

LoopLeaderVals == {None, [shape |-> <<4>>, data |-> Scaled(LeaderVal.data)]}

\* The command applied by update_physics in the loop: u = [1, -0.5]
LoopInput == (0 :> Unit) @@ (1 :> 0 - Unit \div 2)

\* Outcomes of generate_constraints: the base class raising, no constraint,
\* one half-plane, and two contradictory half-planes.
LoopConstraintResults ==
    {[exc |-> "NotImplementedError"],
     [exc |-> "none", G |-> None, h |-> None],
     [exc |-> "none",
      G |-> [shape |-> <<1, 2>>, data |-> (0 :> ((0 :> 1) @@ (1 :> 0)))],
      h |-> [shape |-> <<1>>, data |-> (0 :> -1)]],
     [exc |-> "none",
      G |-> [shape |-> <<2, 2>>,
             data |-> (0 :> ((0 :> 1) @@ (1 :> 0))) @@ (1 :> ((0 :> -1) @@ (1 :> 0)))],
      h |-> [shape |-> <<2>>, data |-> (0 :> -1) @@ (1 :> -1)]]}

InitLoop ==
    /\ \E n \in 1 .. MaxN :
          /\ topo_args = [num_agents |-> n,
                          adjacency_matrix |-> CycleAdjacency(n),
                          leader_access |-> CycleLeaderAccess(n)]
          /\ all_agents = LoopAgents(n)
    /\ topology = TopologyInit(topo_args.num_agents, topo_args.adjacency_matrix,
                               topo_args.leader_access)
    /\ leader_state \in LoopLeaderVals
    /\ ctrl_args \in [K_matrix : GainVals, K_prime_matrix : {ZeroGain}]
    /\ cen = CentralizedInit(ctrl_args.K_matrix, ctrl_args.K_prime_matrix)
    /\ dis = DistributedInit(ctrl_args.K_matrix)
    /\ cbf_args \in [nominal_controller : {"Centralized", "Distributed"},
                     gc : LoopConstraintResults,
                     u_nom : {(0 :> 1) @@ (1 :> -1)},
                     agent_id : {1}]
    /\ ret = NoRet
    /\ stdout = <<>>
    /\ tracker = None
    /\ sim_args = [dt |-> TestDt]

\* The filter object: BaseCBF(nominal_controller)
LoopFilter ==
    BaseCBFInit(IF cbf_args.nominal_controller = "Centralized"
                THEN [kind |-> "Centralized", self |-> cen.self]
                ELSE [kind |-> "Distributed", self |-> dis.self])

CallGetNeighborErrors ==
    /\ \E agent_id \in ArgIds :
          LET r == GetNeighborErrors(dis.self, agent_id, all_agents, topology.self)
          IN  /\ ret' = [op |-> "get_neighbor_errors", agent_id |-> agent_id,
                         exc |-> r.exc, value |-> r.value]
              /\ all_agents' = r.all_agents
    /\ UNCHANGED <<topo_args, topology, leader_state, ctrl_args, cbf_args, cen, dis,
                   stdout, tracker, sim_args>>

CallComputeSafeControl ==
    /\ Len(stdout) < MaxLog
    /\ \E agent_id \in ArgIds :
          LET nom == FilterNominal(LoopFilter.nominal, agent_id, all_agents,
                                   topology.self)
              answers == IF nom.exc = "none"
                         THEN SolverAnswers(nom.value, cbf_args.gc)
                         ELSE {None}
          IN  \E u_opt \in answers :
                LET r == ComputeSafeControl(LoopFilter, agent_id, all_agents,
                                            topology.self, cbf_args.gc, u_opt)
                IN  /\ ret' = [op |-> "compute_safe_control", agent_id |-> agent_id,
                               exc |-> r.exc, value |-> r.value,
                               nominal |-> r.nominal,
                               solver_calls |-> r.solver_calls]
                    /\ stdout' = stdout \o r.printed
    /\ UNCHANGED <<topo_args, topology, all_agents, leader_state, ctrl_args, cbf_args,
                   cen, dis, tracker, sim_args>>

\* update_physics of one agent, at most MaxSteps times in all
LoopUpdatePhysics ==
    /\ SumTo([i \in 0 .. PyLen(all_agents) - 1 |-> Len(all_agents[i].history)],
             PyLen(all_agents)) < MaxSteps
    /\ \E i \in 0 .. PyLen(all_agents) - 1 :
          /\ ExactStep(all_agents[i], LoopInput, sim_args.dt)
          /\ all_agents' = [all_agents EXCEPT
                               ![i] = UpdatePhysics(all_agents[i], LoopInput,
                                                    sim_args.dt)]
          /\ ret' = [op |-> "update_physics", agent_id |-> i + 1,
                     u |-> LoopInput, dt |-> sim_args.dt, exc |-> "none"]
    /\ UNCHANGED <<topo_args, topology, leader_state, ctrl_args, cbf_args, cen, dis,
                   stdout, tracker, sim_args>>

NextLoop ==
    \/ CallGetNeighborErrors
    \/ CallCentralizedComputeNominal
    \/ CallDistributedComputeNominal
    \/ CallComputeSafeControl
    \/ CallSolveCbfQp
    \/ LoopUpdatePhysics

SpecLoop == InitLoop /\ [][NextLoop]_vars

(***************************************************************************)
(* ErrorTracker (utils/metric.py).                                         *)
(***************************************************************************)
Abs(x) == IF x < 0 THEN 0 - x ELSE x

RECURSIVE MaxTo(_, _)
\* max(f[0], ..., f[k-1]) for k >= 1
MaxTo(f, k) ==
    IF k = 1 THEN f[0]
    ELSE LET m == MaxTo(f, k - 1) IN IF f[k - 1] > m THEN f[k - 1] ELSE m

\* ErrorTracker.__init__
ErrorTrackerInit == [e_abs_hist |-> <<>>, e_abs_mean |-> <<>>, e_abs_max |-> <<>>]

\* Mutant: the signed error x_i - f_i - x0 is recorded, without np.abs.
TrackerStepSigned(self, agents, ls) ==
    IF IsNone(ls)
    THEN [exc |-> "ValueError", self |-> self]
    ELSE LET n == PyLen(agents)
             e_flat == [k \in 0 .. dim_x * n - 1 |->
                           agents[k \div dim_x].state[k % dim_x]
                           - agents[k \div dim_x].f[k % dim_x] - ls.data[k % dim_x]]
         IN  [exc |-> "none",
              self |-> [e_abs_hist |-> Append(self.e_abs_hist, e_flat),
                        e_abs_mean |-> Append(self.e_abs_mean,
                            [num |-> SumTo(e_flat, dim_x * n), den |-> dim_x * n]),
                        e_abs_max |-> Append(self.e_abs_max,
                            MaxTo(e_flat, dim_x * n))]]

\* ErrorTracker.step: |x_i - f_i - x0| of every follower, stacked and
\* flattened, is appended with its mean (the fraction sum / 4N) and its
\* maximum.  _as_state4 cannot reshape None into a (4,1) column.
TrackerStep(self, agents, ls) ==
    IF IsNone(ls)
    THEN [exc |-> "ValueError", self |-> self]
    ELSE LET n == PyLen(agents)
             e_flat == [k \in 0 .. dim_x * n - 1 |->
                           Abs(agents[k \div dim_x].state[k % dim_x]
                               - agents[k \div dim_x].f[k % dim_x]
                               - ls.data[k % dim_x])]
         IN  [exc |-> "none",
              self |-> [e_abs_hist |-> Append(self.e_abs_hist, e_flat),
                        e_abs_mean |-> Append(self.e_abs_mean,
                            [num |-> SumTo(e_flat, dim_x * n), den |-> dim_x * n]),
                        e_abs_max |-> Append(self.e_abs_max,
                            MaxTo(e_flat, dim_x * n))]]

(***************************************************************************)
(* The end-to-end scenario: 6 followers on the cycle graph of the tests,   *)
(* started at rest away from their offsets; each step evaluates the        *)
(* centralized law on the current states, applies every follower's command *)
(* with update_physics and records the error with ErrorTracker.step.       *)
(***************************************************************************)
ScenarioN == 6

FixtureAdjacency ==
    [shape |-> <<ScenarioN, ScenarioN>>,
     data |-> [i \in 0 .. ScenarioN - 1 |->
                 [j \in 0 .. ScenarioN - 1 |->
                    IF j = (i + 1) % ScenarioN \/ i = (j + 1) % ScenarioN
                    THEN 1 ELSE 0]]]

FixtureLeaderAccess ==
    [shape |-> <<ScenarioN>>,
     data |-> [i \in 0 .. ScenarioN - 1 |-> IF i \in {0, 2} THEN 1 ELSE 0]]

\* K = [kp I, kd I]: position and velocity feedback, stabilizing for
\* kp, kd > 0 on a positive definite H
PdGain(kp, kd) == Gain(Vec4(kp, 0, kd, 0), Vec4(0, kp, 0, kd))

ScenarioGainVals == {PdGain(1, 2), PdGain(1, 1), PdGain(2, 3)}

\* The offsets: a hexagon around the leader
HexagonOffsets ==
    (0 :> Vec4(2, 0, 0, 0)) @@ (1 :> Vec4(1, 2, 0, 0)) @@ (2 :> Vec4(-1, 2, 0, 0))
    @@ (3 :> Vec4(-2, 0, 0, 0)) @@ (4 :> Vec4(-1, -2, 0, 0)) @@ (5 :> Vec4(1, -2, 0, 0))

\* Starts at rest: all at the origin, on a line, or in a mirrored hexagon
ScenarioStarts ==
    {[i \in 0 .. ScenarioN - 1 |-> Zeros4],
     [i \in 0 .. ScenarioN - 1 |-> Vec4(i, 0 - i, 0, 0)],
     [i \in 0 .. ScenarioN - 1 |->
         Vec4(0 - HexagonOffsets[i][0], HexagonOffsets[i][1] + 1, 0, 0)]}

\* A static leader at the origin or at (1, 1)
ScenarioLeaderVals ==
    {[shape |-> <<4>>, data |-> Zeros4], [shape |-> <<4>>, data |-> Scaled(Vec4(1, 1, 0, 0))]}

InitScenario ==
    /\ topo_args = [num_agents |-> ScenarioN, adjacency_matrix |-> FixtureAdjacency,
                    leader_access |-> FixtureLeaderAccess]
    /\ topology = TopologyInit(topo_args.num_agents, topo_args.adjacency_matrix,
                               topo_args.leader_access)
    /\ sim_args \in [x0 : ScenarioStarts, dt : {TestDt, [num |-> 1, den |-> 2]}]
    /\ all_agents = [i \in 0 .. ScenarioN - 1 |->
                        AgentInit(i + 1, Scaled(sim_args.x0[i]), Scaled(HexagonOffsets[i]))]
    /\ leader_state \in ScenarioLeaderVals
    /\ ctrl_args \in [K_matrix : ScenarioGainVals, K_prime_matrix : {ZeroGain}]
    /\ cen = CentralizedInit(ctrl_args.K_matrix, ctrl_args.K_prime_matrix)
    /\ dis = None
    /\ cbf_args = None
    /\ tracker = ErrorTrackerInit
    /\ ret = NoRet
    /\ stdout = <<>>

ScenarioStep ==
    /\ Len(tracker.e_abs_mean) < MaxSteps
    /\ LET r == CentralizedComputeNominal(cen.self, all_agents, topology.self,
                                          leader_state)
           stepped == [i \in 0 .. PyLen(all_agents) - 1 |->
                          UpdatePhysics(all_agents[i], r.value[i], sim_args.dt)]
       IN  /\ \A i \in 0 .. PyLen(all_agents) - 1 :
                 ExactStep(all_agents[i], r.value[i], sim_args.dt)
           /\ all_agents' = stepped
           /\ tracker' = TrackerStep(tracker, stepped, leader_state).self
           /\ ret' = [op |-> "scenario_step", exc |-> "none", value |-> r.value]
    /\ UNCHANGED <<topo_args, topology, leader_state, ctrl_args, cbf_args, cen, dis,
                   stdout, sim_args>>

NextScenario == ScenarioStep

SpecScenario == InitScenario /\ [][NextScenario]_vars

(***************************************************************************)
(* Properties of the Topology.                                             *)
(***************************************************************************)
\* The adjacency matrix and leader-access vector a well-shaped call stands
\* for (None is the all-zero default).
ArgAdjacency ==
    IF IsNone(topo_args.adjacency_matrix)
    THEN NpZeros2(topo_args.num_agents, topo_args.num_agents).data
    ELSE topo_args.adjacency_matrix.data

ArgLeaderAccess ==
    IF IsNone(topo_args.leader_access)
    THEN [i \in 0 .. topo_args.num_agents - 1 |-> 0]
    ELSE topo_args.leader_access.data

(* C8: on a Topology built from an N x N adjacency matrix and a length-N   *)
(* leader-access vector, for every i, j in 1..N: j is in get_neighbors(i)  *)
(* iff adj_matrix[i-1, j-1] > 0, sees_leader(i) iff D_lead[i-1, i-1] > 0,  *)
(* and every returned ID lies in 1..N.                                     *)
C8_QueriesOneBased ==
    WellShaped(topo_args) =>
        LET N == topo_args.num_agents
            i == ret.agent_id
        IN  /\ (ret.op = "get_neighbors" /\ i \in 1 .. N) =>
                  /\ ret.exc = "none"
                  /\ Range(ret.value) \subseteq 1 .. N
                  /\ \A j \in 1 .. N :
                        (j \in Range(ret.value))
                            <=> (topology.self.adj_matrix.data[i - 1][j - 1] > 0)
            /\ (ret.op = "sees_leader" /\ i \in 1 .. N) =>
                  /\ ret.exc = "none"
                  /\ ret.value <=> (topology.self.D_lead.data[i - 1][i - 1] > 0)

\* get_neighbors(2) returned exactly follower 1 on a 2-follower topology.
C8_Witness ==
    /\ WellShaped(topo_args)
    /\ topo_args.num_agents = 2
    /\ ret.op = "get_neighbors"
    /\ ret.agent_id = 2
    /\ ret.value = <<1>>

(* C9: for a Topology built from an N x N adjacency matrix A and a         *)
(* length-N vector b, laplacian_matrix = diag(row sums of A) - A, every    *)
(* row of it sums to zero, and get_augmented_laplacian returns             *)
(* H = L + diag(b); the queries do not change any of this.                 *)
C9_LaplacianInvariant ==
    WellShaped(topo_args) =>
        LET N == topo_args.num_agents
            A == ArgAdjacency
            b == ArgLeaderAccess
            L == topology.self.laplacian_matrix
            H == GetAugmentedLaplacian(topology.self)
        IN  /\ topology.exc = "none"
            /\ L.shape = <<N, N>>
            /\ H.shape = <<N, N>>
            /\ \A i \in 0 .. N - 1 :
                  /\ SumTo(L.data[i], N) = 0
                  /\ \A j \in 0 .. N - 1 :
                        /\ L.data[i][j]
                             = (IF i = j THEN SumTo(A[i], N) ELSE 0) - A[i][j]
                        /\ H.data[i][j]
                             = L.data[i][j] + (IF i = j THEN b[i] ELSE 0)
            /\ ret.op = "get_augmented_laplacian" => ret.value = H

\* H was returned for an asymmetric 2-follower graph with a leader link,
\* after which H[0][0] = 1 + 1 and H[1][0] = 0.
C9_Witness ==
    /\ WellShaped(topo_args)
    /\ topo_args.num_agents = 2
    /\ ~IsNone(topo_args.adjacency_matrix)
    /\ ~IsNone(topo_args.leader_access)
    /\ ArgAdjacency[0][1] = 1
    /\ ArgAdjacency[1][0] = 0
    /\ ArgLeaderAccess[0] = 1
    /\ ret.op = "get_augmented_laplacian"
    /\ ret.value.data[0][0] = 2 - ArgAdjacency[0][0]

(* C10: a Topology(...) call whose adjacency matrix is not N x N, or whose *)
(* leader-access vector is not of length N, raises before any Laplacian is *)
(* computed, so no Topology with inconsistent dimensions exists.           *)
C10_ShapeMismatchRejected ==
    ~WellShaped(topo_args) =>
        /\ topology.exc # "none"
        /\ "laplacian_matrix" \notin DOMAIN topology.self


(***************************************************************************)
(* Properties of the nominal controllers.                                  *)
(***************************************************************************)
\* The agent list and the topology are for the same N followers.
SameN == topology.exc = "none" /\ PyLen(all_agents) = topology.self.n

\* (x_j - f_j)[c] and (x_j - f_j - x_L)[c] of follower j (1-based)
FormationState(j, c) == all_agents[j - 1].state[c] - all_agents[j - 1].f[c]

TrackingError(j, c) == FormationState(j, c) - LeaderColumn(leader_state)[c]

\* -K * v, row r, for a 4-vector v
MinusK(K, v, r) == 0 - SumTo([c \in 0 .. dim_x - 1 |-> K.data[r][c] * v[c]], dim_x)

\* The consensus protocol for follower i (1-based):
\* -K [ sum_j a_ij ((x_i - f_i) - (x_j - f_j)) + b_i (x_i - f_i - x_L) ]
ConsensusLaw(K, i) ==
    LET N == PyLen(all_agents)
        a(j) == topology.self.adj_matrix.data[i - 1][j - 1]
        b_i == topology.self.D_lead.data[i - 1][i - 1]
        inner == [c \in 0 .. dim_x - 1 |->
                    SumTo([j \in 0 .. N - 1 |->
                              IF a(j + 1) > 0
                              THEN a(j + 1) * (FormationState(i, c)
                                               - FormationState(j + 1, c))
                              ELSE 0], N)
                    + b_i * TrackingError(i, c)]
    IN  [r \in 0 .. dim_u - 1 |-> MinusK(K, inner, r)]

\* Follower i's block of -(H kron K) E + (I kron K') F, written per agent:
\* -K sum_j H[i,j] (x_j - f_j - x_L) + K' f_i
BlockLaw(K, Kp, i) ==
    LET N == PyLen(all_agents)
        H == topology.self.augmented_laplacian.data
        inner == [c \in 0 .. dim_x - 1 |->
                    SumTo([j \in 0 .. N - 1 |->
                              H[i - 1][j] * TrackingError(j + 1, c)], N)]
    IN  [r \in 0 .. dim_u - 1 |->
            MinusK(K, inner, r)
            + SumTo([c \in 0 .. dim_x - 1 |->
                        Kp.data[r][c] * all_agents[i - 1].f[c]], dim_x)]

(* C1: with the same gain K and zero feed-forward, row i of the            *)
(* centralized compute_nominal equals the distributed compute_nominal of   *)
(* follower i, for every follower ID i in 1..N.                            *)
C1_CrossConsistency ==
    (/\ SameN
     /\ cen.exc = "none"
     /\ cen.self.K_prime = ZeroGain
     /\ cen.self.K = dis.self.K
     /\ ret.op = "Distributed.compute_nominal"
     /\ ret.agent_id \in 1 .. PyLen(all_agents))
    => LET c == CentralizedComputeNominal(cen.self, all_agents, topology.self,
                                          leader_state)
       IN  /\ c.exc = "none"
           /\ ret.exc = "none"
           /\ ret.value = c.value[ret.agent_id - 1]

(* C2: for every follower ID i in 1..N the distributed compute_nominal     *)
(* returns -K [ sum_{j in N_i} a_ij ((x_i-f_i)-(x_j-f_j))                  *)
(* + b_i (x_i-f_i-x_L) ], a_ij and b_i being follower i's adjacency        *)
(* weights and diagonal entry of D_lead.                                   *)
C2_DistributedLaw ==
    (/\ SameN
     /\ ret.op = "Distributed.compute_nominal"
     /\ ret.agent_id \in 1 .. PyLen(all_agents))
    => /\ ret.exc = "none"
       /\ ret.value = ConsensusLaw(dis.self.K, ret.agent_id)

(* C3: for N agents and an N x N augmented Laplacian H, the centralized    *)
(* compute_nominal returns an N x 2 matrix whose row i is                  *)
(* -K sum_j H[i,j] (x_j - f_j - x_L) + K' f_i.                             *)
C3_CentralizedLaw ==
    (SameN /\ ret.op = "Centralized.compute_nominal")
    => /\ ret.exc = "none"
       /\ DOMAIN ret.value = 0 .. PyLen(all_agents) - 1
       /\ \A i \in 1 .. PyLen(all_agents) :
             ret.value[i - 1] = BlockLaw(cen.self.K, cen.self.K_prime, i)

\* The law was evaluated for two followers on an asymmetric weighted graph,
\* with a leader state, a non-zero K' and a non-zero offset.
C3_Witness ==
    /\ SameN
    /\ ret.op = "Centralized.compute_nominal"
    /\ ret.exc = "none"
    /\ PyLen(all_agents) = 2
    /\ ~IsNone(leader_state)
    /\ cen.self.K_prime # ZeroGain
    /\ topology.self.adj_matrix.data[0][1] = 2
    /\ topology.self.adj_matrix.data[1][0] = 1
    /\ topology.self.D_lead.data[0][0] = 1
    /\ all_agents[0].f # Zeros4
    /\ all_agents[0].state # all_agents[1].state
    /\ ret.value[0] # ret.value[1]

(* C4: a centralized controller constructed with K only is usable, and its *)
(* compute_nominal returns the feedback term alone, -(H kron K) E.         *)
C4_FeedForwardOptional ==
    ctrl_args.K_prime_matrix = NpScalar0
    => /\ cen.exc = "none"
       /\ (SameN /\ ret.op = "Centralized.compute_nominal")
          => /\ ret.exc = "none"
             /\ \A i \in 1 .. PyLen(all_agents) :
                   ret.value[i - 1] = BlockLaw(cen.self.K, ZeroGain, i)

(* C11: the distributed compute_nominal fails with an index error for      *)
(* every agent_id outside 1..N (0, negative values, N+1) and with no index *)
(* error for any agent_id inside 1..N.                                     *)
C11_IndexErrors ==
    (SameN /\ ret.op = "Distributed.compute_nominal")
    => ((ret.exc = "IndexError") <=> (ret.agent_id \notin 1 .. PyLen(all_agents)))

(* C12: constructing either nominal controller with a K that is not 2 x 4, *)
(* or the centralized one with a K' that is not 2 x 4, fails, so no        *)
(* controller object holds a wrongly shaped gain.                          *)
C12_GainShapeValidated ==
    /\ ctrl_args.K_matrix.shape # <<2, 4>>
          => (cen.exc = "ValueError" /\ dis.exc = "ValueError")
    /\ ctrl_args.K_prime_matrix.shape # <<2, 4>> => cen.exc = "ValueError"
    /\ dis.exc = "none" => dis.self.K.shape = <<2, 4>>

(***************************************************************************)
(* Properties of the safety filter.                                        *)
(***************************************************************************)
\* generate_constraints returned (G, h), not (None, None) and no exception.
ConstraintsActive == cbf_args.gc.exc = "none" /\ ~IsNone(cbf_args.gc.G)

\* Squared Euclidean distance of two commands
Dist2(u, v) == (u[0] - v[0]) * (u[0] - v[0]) + (u[1] - v[1]) * (u[1] - v[1])

(* C5: when generate_constraints returns (None, None), solve_cbf_qp        *)
(* returns u_nom itself and makes no call to the QP solver.                *)
C5_NoConstraintPassThrough ==
    (/\ ret.op = "solve_cbf_qp"
     /\ cbf_args.gc.exc = "none"
     /\ IsNone(cbf_args.gc.G))
    => /\ ret.exc = "none"
       /\ ret.value = cbf_args.u_nom
       /\ ret.solver_calls = <<>>

\* The filter passed a non-zero command through with no constraint.
C5_Witness ==
    /\ ret.op = "solve_cbf_qp"
    /\ cbf_args.gc.exc = "none"
    /\ IsNone(cbf_args.gc.G)
    /\ cbf_args.u_nom = (0 :> 1) @@ (1 :> -1)
    /\ ret.value = cbf_args.u_nom

(* C6: when the solver reports infeasibility, solve_cbf_qp raises nothing, *)
(* returns u_nom unmodified and emits exactly one warning line naming the  *)
(* agent; no other call emits a line, so the lines on stdout count the     *)
(* fallbacks.                                                              *)
C6_InfeasibleFallback ==
    [][IF ret'.solver_calls # <<>> /\ IsNone(ret'.u_opt)
       THEN /\ ret'.exc = "none"
            /\ ret'.value = cbf_args.u_nom
            /\ stdout' = Append(stdout, WarningLine(cbf_args.agent_id))
       ELSE stdout' = stdout]_vars

\* Two fallbacks of agent 2 left two warning lines and returned u_nom.
C6_Witness ==
    /\ ret.op = "solve_cbf_qp"
    /\ ConstraintsActive
    /\ IsNone(ret.u_opt)
    /\ cbf_args.u_nom = (0 :> 1) @@ (1 :> -1)
    /\ ret.value = cbf_args.u_nom
    /\ stdout = <<WarningLine(2), WarningLine(2)>>

(* C7: with active, feasible constraints and a solver that meets its       *)
(* contract, the returned command satisfies every row of G u <= h and no   *)
(* feasible command is closer to u_nom.                                    *)
C7_Projection ==
    (/\ ret.op = "solve_cbf_qp"
     /\ ConstraintsActive
     /\ FeasibleSet(cbf_args.gc.G, cbf_args.gc.h) # {})
    => /\ ret.exc = "none"
       /\ ret.value \in FeasibleSet(cbf_args.gc.G, cbf_args.gc.h)
       /\ \A v \in FeasibleSet(cbf_args.gc.G, cbf_args.gc.h) :
             Dist2(ret.value, cbf_args.u_nom) <= Dist2(v, cbf_args.u_nom)

\* Two constraint rows cut u_nom off and the filter moved the command.
C7_Witness ==
    /\ ret.op = "solve_cbf_qp"
    /\ ConstraintsActive
    /\ Rows(cbf_args.gc.G) = 2
    /\ cbf_args.gc.G.data[0] # cbf_args.gc.G.data[1]
    /\ cbf_args.u_nom \notin FeasibleSet(cbf_args.gc.G, cbf_args.gc.h)
    /\ ret.exc = "none"
    /\ ~IsNone(ret.u_opt)
    /\ ret.value # cbf_args.u_nom
    /\ Dist2(ret.value, cbf_args.u_nom) = 2

(***************************************************************************)
(* Properties of the Agent.                                                *)
(***************************************************************************)
\* y = x + v * dt for the fraction dt, without division
IsEuler(y, x, v, dt) == (y - x) * dt.den = v * dt.num

\* What holds of the agent between calls.
AgentStateOk ==
    LET a == all_agents[0]
        k == Len(a.history)
    IN  /\ k <= MaxSteps
        /\ \A m \in 1 .. k : DOMAIN a.history[m] = 0 .. dim_x - 1
        /\ k = 0 => a.state = sim_args.x0
        /\ k > 0 => a.history[k] = a.state
        /\ a.f = sim_args.f_target
        /\ a.id = sim_args.agent_id
        /\ ret.op = "pos" =>
              /\ ret.value.shape = <<2, 1>>
              /\ ret.value.data[0] = a.state[0] /\ ret.value.data[1] = a.state[1]
        /\ ret.op = "vel" =>
              /\ ret.value.shape = <<2, 1>>
              /\ ret.value.data[0] = a.state[2] /\ ret.value.data[1] = a.state[3]

\* What one step does: an update appends the Euler successor of the state
\* and keeps the earlier entries; a read changes nothing.
AgentStepOk ==
    LET a == all_agents[0]
        b == all_agents'[0]
        k == Len(a.history)
    IN  IF ret'.op = "update_physics"
        THEN /\ Len(b.history) = k + 1
             /\ \A m \in 1 .. k : b.history[m] = a.history[m]
             /\ b.history[k + 1] = b.state
             /\ IsEuler(b.state[0], a.state[0], a.state[2], ret'.dt)
             /\ IsEuler(b.state[1], a.state[1], a.state[3], ret'.dt)
             /\ IsEuler(b.state[2], a.state[2], ret'.u[0], ret'.dt)
             /\ IsEuler(b.state[3], a.state[3], ret'.u[1], ret'.dt)
        ELSE b = a

(* C15: after k calls of update_physics on a fresh agent the history holds *)
(* exactly k entries of 4 components, entry m is the state right after the *)
(* m-th update (x_m = x_{m-1} + (A x_{m-1} + B u_m) dt), later updates     *)
(* leave earlier entries alone, f and id never change, and pos and vel are *)
(* the 2 x 1 position and velocity parts of the current state.             *)
C15_HistoryTracksUpdates == []AgentStateOk /\ [][AgentStepOk]_vars

\* Three updates were made, the last with the tests' u and dt, and the
\* history shows three different states.
C15_Witness ==
    /\ Len(all_agents[0].history) = 3
    /\ ret.op = "update_physics"
    /\ ret.dt = TestDt
    /\ ret.u = (0 :> Unit) @@ (1 :> 0 - Unit \div 2)
    /\ all_agents[0].history[1] # all_agents[0].history[2]
    /\ all_agents[0].history[2] # all_agents[0].history[3]
    /\ all_agents[0].history[1] # sim_args.x0

(***************************************************************************)
(* Properties of the end-to-end scenario.                                  *)
(***************************************************************************)
\* a < b for two fractions with positive denominators
RatLess(a, b) == a.num * b.den < b.num * a.den

\* The agents as constructed, and the commands of the centralized law on them
ColdAgents ==
    [i \in 0 .. ScenarioN - 1 |->
        AgentInit(i + 1, Scaled(sim_args.x0[i]), Scaled(HexagonOffsets[i]))]

ColdCommands ==
    CentralizedComputeNominal(cen.self, ColdAgents, topology.self, leader_state).value

\* 4N times the mean of |x_i - f_i - x_L| at the cold start
ColdErrorSum ==
    SumTo([k \in 0 .. dim_x * ScenarioN - 1 |->
              Abs(ColdAgents[k \div dim_x].state[k % dim_x]
                  - ColdAgents[k \div dim_x].f[k % dim_x]
                  - leader_state.data[k % dim_x])], dim_x * ScenarioN)

\* The scenario's preconditions: at rest, not at the offsets, offsets and
\* leader without velocity.
ColdStart ==
    /\ \A i \in 0 .. ScenarioN - 1 :
          /\ ColdAgents[i].state[2] = 0 /\ ColdAgents[i].state[3] = 0
          /\ ColdAgents[i].f[2] = 0 /\ ColdAgents[i].f[3] = 0
    /\ leader_state.data[2] = 0 /\ leader_state.data[3] = 0
    /\ ColdErrorSum > 0

(* C14 as stated: the mean errors recorded after the steps are strictly    *)
(* decreasing.                                                             *)
C14_MeanErrorDecreasing ==
    ColdStart =>
        \A k \in 1 .. Len(tracker.e_abs_mean) - 1 :
            RatLess(tracker.e_abs_mean[k + 1], tracker.e_abs_mean[k])

(* C14, amended: from the cold start the first update leaves every         *)
(* follower's position where it was and sets its velocity to dt * u_i, so  *)
(* the first recorded mean error is the cold-start mean error plus         *)
(* dt * sum |u_i| / 4N: it is never below the cold-start error, and above  *)
(* it as soon as one command is not zero.                                  *)
C14_ErrorRisesFromColdStart ==
    (ColdStart /\ Len(tracker.e_abs_mean) >= 1) =>
        LET first(i) == all_agents[i].history[1]
            e1 == tracker.e_abs_mean[1]
            dt == sim_args.dt
        IN  /\ \A i \in 0 .. ScenarioN - 1 :
                  /\ first(i)[0] = ColdAgents[i].state[0]
                  /\ first(i)[1] = ColdAgents[i].state[1]
                  /\ first(i)[2] * dt.den = ColdCommands[i][0] * dt.num
                  /\ first(i)[3] * dt.den = ColdCommands[i][1] * dt.num
            /\ e1.den = dim_x * ScenarioN
            /\ e1.num * dt.den
                 = ColdErrorSum * dt.den
                   + dt.num * SumTo([p \in 0 .. dim_u * ScenarioN - 1 |->
                                        Abs(ColdCommands[p \div dim_u][p % dim_u])],
                                    dim_u * ScenarioN)
            /\ e1.num >= ColdErrorSum
            /\ (\E i \in 0 .. ScenarioN - 1 : ColdCommands[i] # ((0 :> 0) @@ (1 :> 0)))
                 => e1.num > ColdErrorSum

\* With dt = 0.1 and K = [I, 2I] the followers started at the origin and
\* the recorded mean error rose over three steps, starting above the
\* cold-start error.
C14_Witness ==
    /\ ColdStart
    /\ sim_args.dt = TestDt
    /\ sim_args.x0[0] = Zeros4
    /\ ctrl_args.K_matrix = PdGain(1, 2)
    /\ Len(tracker.e_abs_mean) = 3
    /\ tracker.e_abs_mean[1].num > ColdErrorSum
    /\ RatLess(tracker.e_abs_mean[1], tracker.e_abs_mean[2])
    /\ RatLess(tracker.e_abs_mean[2], tracker.e_abs_mean[3])

(***************************************************************************)
(* Properties of the control loop.                                         *)
(***************************************************************************)
ControlLawOps ==
    {"get_neighbor_errors", "Centralized.compute_nominal",
     "Distributed.compute_nominal", "compute_safe_control", "solve_cbf_qp"}

(* C13: every control-law evaluation (get_neighbor_errors, both            *)
(* compute_nominal variants, compute_safe_control, solve_cbf_qp) leaves    *)
(* the agents, the topology's matrices and the controllers' gains as they  *)
(* were; an agent changes only in update_physics, which changes that       *)
(* agent's state and history and nothing else.                             *)
C13_ControlLawsReadOnly ==
    [][/\ topology' = topology
       /\ cen' = cen
       /\ dis' = dis
       /\ ret'.op \in ControlLawOps => all_agents' = all_agents
       /\ all_agents' # all_agents =>
             /\ ret'.op = "update_physics"
             /\ DOMAIN all_agents' = DOMAIN all_agents
             /\ \A i \in DOMAIN all_agents :
                   /\ all_agents'[i].f = all_agents[i].f
                   /\ all_agents'[i].id = all_agents[i].id
                   /\ i # ret'.agent_id - 1 => all_agents'[i] = all_agents[i]]_vars

\* After follower 1 was stepped, the helper returned a non-zero error sum
\* for follower 2 and the agents still show the stepped state.
C13_Witness ==
    /\ ret.op = "get_neighbor_errors"
    /\ ret.exc = "none"
    /\ ret.agent_id = 2
    /\ ret.value # Zeros4
    /\ PyLen(all_agents) = 2
    /\ Len(all_agents[0].history) = 1
    /\ all_agents[0].state = all_agents[0].history[1]
    /\ all_agents[0].state # LoopAgents(2)[0].state
    /\ all_agents[1] = LoopAgents(2)[1]

(* C16: compute_safe_control(agent_id, all_agents, topology) of a filter   *)
(* wrapping either controller obtains follower agent_id's nominal command  *)
(* for the current states (no leader state given) and passes it to         *)
(* solve_cbf_qp; with no active constraint it returns that command.        *)
C16_SafeControlWrapsNominal ==
    (/\ ret.op = "compute_safe_control"
     /\ SameN
     /\ IsNone(leader_state)
     /\ ret.agent_id \in 1 .. PyLen(all_agents))
    => LET u_nom == IF cbf_args.nominal_controller = "Centralized"
                    THEN BlockLaw(cen.self.K, cen.self.K_prime, ret.agent_id)
                    ELSE ConsensusLaw(dis.self.K, ret.agent_id)
       IN  /\ ret.nominal.exc = "none"
           /\ ret.nominal.value = u_nom
           /\ (cbf_args.gc.exc = "none" /\ IsNone(cbf_args.gc.G))
                 => (ret.exc = "none" /\ ret.value = u_nom)

=============================================================================
